---- MODULE Spec2Model ----
(***************************************************************************)
(* Model of extensor_vazoes: the analog-year selection of                  *)
(* CorrelacaoAmplitude and of SimpleCorrelation12 (src/vv/model.py) and    *)
(* the batch driver vaz20 (src/vv/scripts.py).                             *)
(*                                                                         *)
(* A monthly period is the integer  year * 12 + (month - 1).               *)
(* A dataframe is a record [index |-> sequence of periods,                 *)
(* rows |-> sequence of rows, freq |-> frequency of the index ("M" is      *)
(* monthly), columns |-> sequence of the stations' labels], a row being a  *)
(* sequence of one value per station, in the order of columns.  Floating-point quotients are kept as exact fractions:         *)
(* a ratio is [n, d] (d = 0 and n > 0 is +inf, n = d = 0 is NaN), a        *)
(* Pearson correlation is [a, b, c] standing for a / sqrt(b * c), NaN when *)
(* b = 0 or c = 0.  Python's None is -1 for numbers and the empty          *)
(* sequence for lists and tables.                                          *)
(***************************************************************************)
EXTENDS Integers, Sequences, FiniteSets, TLC

VARIABLES
    df,              \* the dataframe handed to fit (df_base argument / vazoes.df_period)
    model,           \* the instance (its class and its attributes)
    top_corr,        \* local of fit: the correlation column sorted, best first
    posicao,         \* local of fit: the loop variable of the candidate walk
    pc,              \* where the instance is: "init", "walk", "fitted", "fit_error", ...
    err,             \* the exception that left fit / predict / vaz20, "" when none
    previsao,        \* the dataframe returned by predict
    num_meses,       \* the argument given to predict (0 is None)
    arquivo,         \* vaz20: number of the input file being processed (0 before the first)
    i_posto,         \* vaz20: position in postos_corr of the station being processed
    anos_usados,     \* vaz20: the list of years already used
    result_models,   \* vaz20: the models kept for the report, in insertion order
    saida,           \* vaz20: the files written to saida_vaz20
    lim,             \* vaz20: its arguments [max_lt_min, max_gt_max]
    vpc              \* vaz20: where the driver is ("api" when the class is used directly)

vars == <<df, model, top_corr, posicao, pc, err, previsao, num_meses,
          arquivo, i_posto, anos_usados, result_models, saida, lim, vpc>>

fitVars == <<df, model, top_corr, posicao, pc, err, previsao, num_meses>>
vazVars == <<arquivo, i_posto, anos_usados, result_models, saida, lim, vpc>>

----------------------------------------------------------------------------
(* Bounds of the inputs.                                                   *)

MaxBlocks == 3        \* a series holds 2..MaxBlocks whole years
MaxExtra == 1         \* and 0..MaxExtra months before its first whole year
MaxHorizon == 13      \* num_meses is drawn from 0..MaxHorizon (0 is None)
MaxFiles == 2         \* vaz20 finds 1..MaxFiles input files
MaxPosicao == 2       \* posicao of a SimpleCorrelation12 is drawn from 0..MaxPosicao
AnoInicial == 2000    \* year of the first whole year of every series

JANELA == 12          \* months of the rolling window and of the reference stretch
FIM_DE_ANO == 13      \* default horizon is FIM_DE_ANO - month of the forecast start

None == -1
NoneDf == [index |-> <<>>, rows |-> <<>>, freq |-> "M", columns |-> <<>>]
NaN == [n |-> 0, d |-> 0]
NaNCorr == [a |-> 0, b |-> 0, c |-> 0]

Stations == {1, 2}

\* pd.Period arithmetic: .month and .year of a monthly period.
Month(p) == (p % 12) + 1
Year(p) == p \div 12

RECURSIVE SumTo(_, _)
SumTo(s, i) == IF i = 0 THEN 0 ELSE s[i] + SumTo(s, i - 1)
Sum(s) == SumTo(s, Len(s))

Abs(x) == IF x < 0 THEN -x ELSE x

Last(s) == s[Len(s)]

\* Input series: each year of a series is one of these blocks of 12 rows.
Shape(a, m, b) == <<a, m, 3, 2, 1, 1, 1, 1, 1, 1, 2, b>>
Flat == <<1, 1, 1, 1, 1, 1, 1, 1, 1, 1, 1, 1>>
BlockKinds == << <<Shape(2, 2, 1), Shape(2, 3, 1)>>,
                 <<Shape(1, 3, 2), Shape(1, 2, 2)>>,
                 <<Flat,           Shape(0, 2, 2)>> >>

BlockRows(k) == [i \in 1..12 |-> <<BlockKinds[k][1][i], BlockKinds[k][2][i]>>]

RECURSIVE Concat(_)
Concat(ss) == IF ss = <<>> THEN <<>> ELSE Head(ss) \o Concat(Tail(ss))

\* The series made of `extra` leading months and the blocks `kinds`; the
\* first whole block starts in January of AnoInicial.
Serie(kinds, extra) ==
    LET rows == [i \in 1..extra |-> <<1, 1>>]
                  \o Concat([j \in 1..Len(kinds) |-> BlockRows(kinds[j])])
        ini == AnoInicial * 12 - extra
    IN [index |-> [i \in 1..Len(rows) |-> ini + i - 1], rows |-> rows, freq |-> "M",
        columns |-> <<1, 2>>]

Series ==
    { Serie(ks, e) : ks \in UNION { [1..n -> 1..Len(BlockKinds)] : n \in 2..MaxBlocks },
                     e \in 0..MaxExtra }

\* Years the candidates of a series can fall in.
AnosDaSerie(d) == { Year(d.index[i]) : i \in 1..Len(d.index) }

----------------------------------------------------------------------------
(* Floating-point values kept exact.                                       *)

IsNaNRatio(r) == r.n = 0 /\ r.d = 0
\* r1 > r2 as IEEE numbers (false when either is NaN; d = 0 is +inf).
RatioGt(r1, r2) == /\ ~IsNaNRatio(r1)
                   /\ ~IsNaNRatio(r2)
                   /\ r1.n * r2.d > r2.n * r1.d

IsNaNCorr(c) == c.b = 0 \/ c.c = 0
\* c1 > c2 as IEEE numbers (false when either is NaN):
\* a1/sqrt(b1*c1) > a2/sqrt(b2*c2), compared through the signed squares.
CorrGt(c1, c2) == /\ ~IsNaNCorr(c1)
                  /\ ~IsNaNCorr(c2)
                  /\ c1.a * Abs(c1.a) * (c2.b * c2.c) > c2.a * Abs(c2.a) * (c1.b * c1.c)
\* The correlation is exactly 1.0.
CorrIsOne(c) == ~IsNaNCorr(c) /\ c.a > 0 /\ c.a * c.a = c.b * c.c

\* Pearson correlation of two sequences of JANELA values.
Pearson(x, y) ==
    LET n == Len(x)
        sx == Sum(x)
        sy == Sum(y)
    IN [a |-> n * Sum([i \in 1..n |-> x[i] * y[i]]) - sx * sy,
        b |-> n * Sum([i \in 1..n |-> x[i] * x[i]]) - sx * sx,
        c |-> n * Sum([i \in 1..n |-> y[i] * y[i]]) - sy * sy]

----------------------------------------------------------------------------
(* calc_corr_last12                                                        *)

\* df_trecho = df_ref.iloc[-12:]
df_trecho(d) ==
    LET n == Len(d.rows)
    IN [index |-> SubSeq(d.index, n - JANELA + 1, n),
        rows |-> SubSeq(d.rows, n - JANELA + 1, n),
        freq |-> d.freq,
        columns |-> d.columns]

\* df_trecho[df_trecho.index.month == month].iloc[0], as a position of df_trecho
TrechoDoMes(t, month) ==
    CHOOSE j \in 1..Len(t.index) :
        /\ Month(t.index[j]) = month
        /\ \A k \in 1..(j - 1) : Month(t.index[k]) # month

\* df_other: every row replaced by the row of df_trecho of its calendar month
df_other(d) ==
    LET t == df_trecho(d)
    IN [i \in 1..Len(d.rows) |-> t.rows[TrechoDoMes(t, Month(d.index[i]))]]

\* df_ref.rolling(12).corr(df_other) at row i, column s: NaN until 12 rows exist
RollingCorr(d, other, i, s) ==
    IF i < JANELA THEN NaNCorr
    ELSE Pearson([j \in 1..JANELA |-> d.rows[i - JANELA + j][s]],
                 [j \in 1..JANELA |-> other[i - JANELA + j][s]])

\* isinstance(df_hist.index.freq, MonthEnd): the index has monthly frequency.
FreqMensal(d) == d.freq = "M"
\* The exception calc_corr_last12 raises when it has not.
FavorInformar == "Favor informar dataframe periodizado mensalmente."

\* df[coluna]: the label is one of the columns, and its position among them.
InColumns(d, coluna) == \E s \in 1..Len(d.columns) : d.columns[s] = coluna
ColPos(d, coluna) == CHOOSE s \in 1..Len(d.columns) : d.columns[s] = coluna

\* The rows kept by df_corr[df_corr.index.month == df_trecho.index.month[-1]],
\* as [mes_final, corr], corr holding one correlation per column.
calc_corr_last12(d) ==
    LET n == Len(d.rows)
        other == df_other(d)
        kept == SelectSeq([i \in 1..n |-> i],
                          LAMBDA i : Month(d.index[i]) = Month(d.index[n]))
    IN [k \in 1..Len(kept) |->
            [mes_final |-> d.index[kept[k]],
             corr |-> [s \in 1..Len(d.rows[1]) |-> RollingCorr(d, other, kept[k], s)]]]

----------------------------------------------------------------------------
(* CorrelacaoAmplitude.fit                                                 *)

\* IsSortedDesc with ascending=True: correlations never decrease.
IsSortedDesc_Ascending(tab, coluna, ord) ==
    \A i, j \in 1..Len(tab) :
        i < j =>
            LET ci == tab[ord[i]].corr[coluna]
                cj == tab[ord[j]].corr[coluna]
            IN /\ ~CorrGt(ci, cj)
               /\ IsNaNCorr(ci) => IsNaNCorr(cj)
               /\ (IsNaNCorr(ci) /\ IsNaNCorr(cj)) => ord[i] < ord[j]

\* An order of the rows of the table that sort_values(ascending=False) can
\* return for column `coluna`: correlations never increase, NaN rows come
\* last in their original order.  Equal correlations may come out in either
\* order: the default sort kind (quicksort) is not a stable sort.
IsSortedDesc(tab, coluna, ord) ==
    \A i, j \in 1..Len(tab) :
        i < j =>
            LET ci == tab[ord[i]].corr[coluna]
                cj == tab[ord[j]].corr[coluna]
            IN /\ ~CorrGt(cj, ci)
               /\ IsNaNCorr(ci) => IsNaNCorr(cj)
               /\ (IsNaNCorr(ci) /\ IsNaNCorr(cj)) => ord[i] < ord[j]

\* The orders of the rows 1..n.
RECURSIVE Orders(_)
Orders(S) ==
    IF S = {} THEN {<<>>}
    ELSE UNION { { <<x>> \o o : o \in Orders(S \ {x}) } : x \in S }

\* self.df_correlacao[coluna].sort_values(ascending=False), coluna being the
\* position of the column: every result the sort can give, as rows
\* [mes_final, corr].
sort_values(tab, coluna) ==
    { [k \in 1..Len(tab) |-> [mes_final |-> tab[ord[k]].mes_final,
                              corr |-> tab[ord[k]].corr[coluna]]] :
        ord \in { o \in Orders(1..Len(tab)) : IsSortedDesc(tab, coluna, o) } }

\* self.ratio_mes for column s: df_base / df_base.shift(-1), positive and
\* finite, in the rows of the last calendar month.
ratio_mes(d, s) ==
    LET n == Len(d.rows)
    IN { [n |-> d.rows[i][s], d |-> d.rows[i + 1][s]] :
            i \in { k \in 1..(n - 1) : /\ Month(d.index[k]) = Month(d.index[n])
                                       /\ d.rows[k][s] > 0
                                       /\ d.rows[k + 1][s] > 0 } }

RatioMin(S) == IF S = {} THEN NaN ELSE CHOOSE r \in S : \A q \in S : ~RatioGt(r, q)
RatioMax(S) == IF S = {} THEN NaN ELSE CHOOSE r \in S : \A q \in S : ~RatioGt(q, r)

\* self.amplitudes_ ('escolhido' is added on acceptance)
amplitudes(d) ==
    [min |-> [s \in 1..Len(d.rows[1]) |-> RatioMin(ratio_mes(d, s))],
     max |-> [s \in 1..Len(d.rows[1]) |-> RatioMax(ratio_mes(d, s))],
     escolhido |-> <<>>]

\* df.loc[p]: the label p is in the index
InIndex(d, p) == \E i \in 1..Len(d.index) : d.index[i] = p
Loc(d, p) == d.rows[CHOOSE i \in 1..Len(d.index) : d.index[i] = p]

\* new_ratio = candidato / self.df_base.iloc[-1]
new_ratio(d, next_period) ==
    [s \in 1..Len(d.rows[1]) |-> [n |-> Loc(d, next_period)[s], d |-> Last(d.rows)[s]]]

\* (new_ratio > self.amplitudes_['max']).sum()
gt_max(nr, amp) == Cardinality({ s \in 1..Len(nr) : RatioGt(nr[s], amp.max[s]) })
\* (new_ratio < self.amplitudes_['min']).sum()
lt_min(nr, amp) == Cardinality({ s \in 1..Len(nr) : RatioGt(amp.min[s], nr[s]) })

InList(x, l) == \E i \in 1..Len(l) : l[i] = x

\* CorrelacaoAmplitude.__init__
NewModel(coluna, anos_ignorados, max_lt_min, max_gt_max) ==
    [classe |-> "CorrelacaoAmplitude",
     coluna |-> coluna,
     anos_ignorados |-> anos_ignorados,
     max_lt_min |-> max_lt_min,
     max_gt_max |-> max_gt_max,
     df_base |-> NoneDf,
     df_correlacao |-> <<>>,
     amplitudes_ |-> [min |-> <<>>, max |-> <<>>, escolhido |-> <<>>],
     correlacao_ |-> NaNCorr,
     correlacao_outros_ |-> <<>>,
     period_escolhido_ini_ |-> None,
     ano_escolhido_ |-> None,
     anos_rejeitados_ |-> <<>>,
     gt_max_ |-> None,
     lt_min_ |-> None,
     posicao_ |-> None]

\* The candidate the walk is at: top_corr.index[posicao] (posicao counts from 0).
Period == top_corr[posicao + 1].mes_final
NextPeriod == Period + 1
NewRatio == new_ratio(model.df_base, NextPeriod)
GtMax == gt_max(NewRatio, model.amplitudes_)
LtMin == lt_min(NewRatio, model.amplitudes_)

Rejeitado(motivo, valor, limite) ==
    [ano |-> Year(NextPeriod),
     correlacao |-> top_corr[posicao + 1].corr,
     motivo |-> [texto |-> motivo, valor |-> valor, limite |-> limite]]

\* FailsLtMin comparing with the other threshold.
FailsLtMin_OtherLimit == LtMin > model.max_gt_max
\* FailsAno looking up the year of the window end instead of the next month's.
FailsAno_WindowEndYear == InList(Year(Period), model.anos_ignorados)

\* The three checks of one candidate, in the order the loop makes them.
FailsGtMax == GtMax > model.max_gt_max
FailsLtMin == LtMin > model.max_lt_min
FailsAno == InList(Year(NextPeriod), model.anos_ignorados)

\* fit up to the loop: the copy of the series, the correlation table (or
\* the exception of calc_corr_last12), its column self.coluna (KeyError
\* when the series has no such column) sorted, the amplitudes.
FitStart ==
    /\ pc = "init"
    /\ model.classe = "CorrelacaoAmplitude"
    /\ IF ~FreqMensal(df)
       THEN /\ model' = [model EXCEPT !.df_base = df]
            /\ pc' = "fit_error"
            /\ err' = FavorInformar
            /\ UNCHANGED <<top_corr, posicao>>
       ELSE IF ~InColumns(df, model.coluna)
       THEN /\ model' = [model EXCEPT !.df_base = df,
                                      !.df_correlacao = calc_corr_last12(df)]
            /\ pc' = "fit_error"
            /\ err' = "KeyError"
            /\ UNCHANGED <<top_corr, posicao>>
       ELSE /\ \E df_correlacao \in {calc_corr_last12(df)} :
                  \E tc \in sort_values(df_correlacao, ColPos(df, model.coluna)) :
                      /\ top_corr' = tc
                      /\ model' = [model EXCEPT !.df_base = df,
                                                !.df_correlacao = df_correlacao,
                                                !.amplitudes_ = amplitudes(df),
                                                !.anos_rejeitados_ = <<>>]
            /\ posicao' = 1
            /\ pc' = "walk"
            /\ err' = err
    /\ UNCHANGED <<df, previsao, num_meses, vazVars>>

InWalk == pc = "walk" /\ posicao < Len(top_corr)

\* self.df_base.loc[_period + 1] raises KeyError: the candidate is the
\* reference window itself, its next month is not in the series.
WalkKeyError ==
    /\ InWalk
    /\ ~InIndex(model.df_base, NextPeriod)
    /\ pc' = "fit_error"
    /\ err' = "KeyError"
    /\ UNCHANGED <<df, model, top_corr, posicao, previsao, num_meses, vazVars>>

\* Reject going on to the next candidate without a record.
Reject_NoRecord(motivo, valor, limite) ==
    /\ posicao' = posicao + 1
    /\ UNCHANGED <<df, model, top_corr, pc, err, previsao, num_meses, vazVars>>

Reject(motivo, valor, limite) ==
    /\ model' = [model EXCEPT !.anos_rejeitados_ =
                                  Append(@, Rejeitado(motivo, valor, limite))]
    /\ posicao' = posicao + 1
    /\ UNCHANGED <<df, top_corr, pc, err, previsao, num_meses, vazVars>>

RejectGtMax ==
    /\ InWalk
    /\ InIndex(model.df_base, NextPeriod)
    /\ FailsGtMax
    /\ Reject("gt_max", GtMax, model.max_gt_max)

RejectLtMin ==
    /\ InWalk
    /\ InIndex(model.df_base, NextPeriod)
    /\ ~FailsGtMax
    /\ FailsLtMin
    /\ Reject("lt_min", LtMin, model.max_lt_min)

\* RejectAno testing the year before the two amplitude tests.
RejectAno_YearFirst ==
    /\ InWalk
    /\ InIndex(model.df_base, NextPeriod)
    /\ FailsAno
    /\ Reject("ano utilizado em outro arquivo", None, None)

RejectAno ==
    /\ InWalk
    /\ InIndex(model.df_base, NextPeriod)
    /\ ~FailsGtMax
    /\ ~FailsLtMin
    /\ FailsAno
    /\ Reject("ano utilizado em outro arquivo", None, None)

\* The candidate passes the three checks: the selection is recorded, the
\* loop breaks and fit returns.
Accept ==
    /\ InWalk
    /\ InIndex(model.df_base, NextPeriod)
    /\ ~FailsGtMax
    /\ ~FailsLtMin
    /\ ~FailsAno
    /\ model' = [model EXCEPT
                    !.posicao_ = posicao,
                    !.period_escolhido_ini_ = NextPeriod,
                    !.ano_escolhido_ = Year(NextPeriod),
                    !.amplitudes_ = [@ EXCEPT !.escolhido = NewRatio],
                    !.gt_max_ = GtMax,
                    !.lt_min_ = LtMin,
                    !.correlacao_ = top_corr[posicao + 1].corr,
                    !.correlacao_outros_ =
                        (CHOOSE r \in { model.df_correlacao[k] : k \in 1..Len(model.df_correlacao) } :
                            r.mes_final = Period).corr]
    /\ pc' = "fitted"
    /\ UNCHANGED <<df, top_corr, posicao, err, previsao, num_meses, vazVars>>

\* The loop ends without a break: posicao_ is still None and
\* top_corr.iloc[None] raises TypeError.
WalkExhausted ==
    /\ pc = "walk"
    /\ posicao >= Len(top_corr)
    /\ pc' = "fit_error"
    /\ err' = "TypeError"
    /\ UNCHANGED <<df, model, top_corr, posicao, previsao, num_meses, vazVars>>

----------------------------------------------------------------------------
(* CorrelacaoAmplitude.predict                                             *)

\* LocFrom slicing after the label instead of from it.
LocFrom_AfterLabel(d, p) ==
    LET keep == SelectSeq([i \in 1..Len(d.index) |-> i],
                          LAMBDA i : p = None \/ d.index[i] > p)
    IN [index |-> [k \in 1..Len(keep) |-> d.index[keep[k]]],
        rows |-> [k \in 1..Len(keep) |-> d.rows[keep[k]]],
        freq |-> d.freq,
        columns |-> d.columns]

\* self.df_base.loc[mes_escolhido_ini:]: the rows from that label on; the
\* whole frame when the label is None (slice(None, None)).
LocFrom(d, p) ==
    LET keep == SelectSeq([i \in 1..Len(d.index) |-> i],
                          LAMBDA i : p = None \/ d.index[i] >= p)
    IN [index |-> [k \in 1..Len(keep) |-> d.index[keep[k]]],
        rows |-> [k \in 1..Len(keep) |-> d.rows[keep[k]]],
        freq |-> d.freq,
        columns |-> d.columns]

\* .iloc[:n]
ILocTo(d, n) ==
    LET m == IF n < Len(d.rows) THEN n ELSE Len(d.rows)
    IN [index |-> SubSeq(d.index, 1, m), rows |-> SubSeq(d.rows, 1, m), freq |-> d.freq,
        columns |-> d.columns]

\* Horizon counting the months left after the forecast start's month.
Horizon_AfterStartMonth(h, mes_escolhido_ini) ==
    IF h # 0 THEN h ELSE JANELA - Month(mes_escolhido_ini)

\* num_meses if num_meses else (13 - mes_escolhido_ini.month)
Horizon(h, mes_escolhido_ini) ==
    IF h # 0 THEN h ELSE FIM_DE_ANO - Month(mes_escolhido_ini)

\* The frame predict returns: the chosen rows under the index
\* pd.period_range(next_month, periods=len(...), freq='M').
df_trecho_ajust(d, mes_escolhido_ini, h) ==
    LET escolhido == ILocTo(LocFrom(d, mes_escolhido_ini), Horizon(h, mes_escolhido_ini))
        next_month == Last(d.index) + 1
    IN [index |-> [i \in 1..Len(escolhido.rows) |-> next_month + i - 1],
        rows |-> escolhido.rows,
        freq |-> "M",
        columns |-> d.columns]

\* predict raises AttributeError: df_base is None (no fit was started), or
\* no horizon is given and period_escolhido_ini_ is None.
PredictFails(h) ==
    \/ model.df_base = NoneDf
    \/ (h = 0 /\ model.period_escolhido_ini_ = None)

Predict ==
    /\ vpc = "api"
    /\ model.classe = "CorrelacaoAmplitude"
    /\ pc \in {"init", "fitted", "fit_error"}
    /\ \E h \in 0..MaxHorizon :
          /\ num_meses' = h
          /\ IF PredictFails(h)
             THEN /\ pc' = "predict_error"
                  /\ err' = "AttributeError"
                  /\ previsao' = previsao
             ELSE /\ pc' = "predicted"
                  /\ err' = err
                  /\ previsao' = df_trecho_ajust(model.df_base,
                                                 model.period_escolhido_ini_, h)
    /\ UNCHANGED <<df, model, top_corr, posicao, vazVars>>

----------------------------------------------------------------------------
(* SimpleCorrelation12                                                     *)

\* SimpleCorrelation12.__init__
NewSimple(coluna, posicao_arg) ==
    [classe |-> "SimpleCorrelation12",
     coluna |-> coluna,
     posicao |-> posicao_arg,
     df_base |-> NoneDf,
     df_correlacao |-> <<>>,
     period_ |-> None,
     correlacao_ |-> NaNCorr,
     correlacao_outros_ |-> <<>>,
     mes_final_periodo_ |-> <<>>]

\* _period_.strftime('%Y-%m'), as the pair <<year, month>>.
strftime(p) == <<Year(p), Month(p)>>

\* SimpleCorrelation12.fit: the correlation table, its sort, and the row at
\* self.posicao; top_corr.index[self.posicao] raises IndexError when the
\* table has no such row, df_base and df_correlacao being set already.
SimpleFit ==
    /\ vpc = "api"
    /\ pc = "init"
    /\ model.classe = "SimpleCorrelation12"
    /\ IF ~FreqMensal(df)
       THEN /\ model' = [model EXCEPT !.df_base = df]
            /\ pc' = "fit_error"
            /\ err' = FavorInformar
            /\ top_corr' = top_corr
       ELSE IF ~InColumns(df, model.coluna)
       THEN /\ model' = [model EXCEPT !.df_base = df,
                                      !.df_correlacao = calc_corr_last12(df)]
            /\ pc' = "fit_error"
            /\ err' = "KeyError"
            /\ top_corr' = top_corr
       ELSE \E df_correlacao \in {calc_corr_last12(df)} :
              \E tc \in sort_values(df_correlacao, ColPos(df, model.coluna)) :
                  /\ top_corr' = tc
                  /\ IF model.posicao < Len(tc)
                     THEN /\ model' = [model EXCEPT
                                !.df_base = df,
                                !.df_correlacao = df_correlacao,
                                !.period_ = tc[model.posicao + 1].mes_final,
                                !.correlacao_ = tc[model.posicao + 1].corr,
                                !.correlacao_outros_ =
                                    (CHOOSE r \in { df_correlacao[k] : k \in 1..Len(df_correlacao) } :
                                        r.mes_final = tc[model.posicao + 1].mes_final).corr,
                                !.mes_final_periodo_ = strftime(tc[model.posicao + 1].mes_final)]
                          /\ pc' = "fitted"
                          /\ err' = err
                     ELSE /\ model' = [model EXCEPT !.df_base = df,
                                                    !.df_correlacao = df_correlacao]
                          /\ pc' = "fit_error"
                          /\ err' = "IndexError"
    /\ UNCHANGED <<df, posicao, previsao, num_meses, vazVars>>

\* SimpleCorrelation12.predict: self._period_ + 1 raises TypeError when
\* _period_ is None, turned into Exception("Realizar o fit do modelo antes").
SimplePredict ==
    /\ vpc = "api"
    /\ model.classe = "SimpleCorrelation12"
    /\ pc \in {"init", "fitted", "fit_error"}
    /\ \E h \in 0..MaxHorizon :
          /\ num_meses' = h
          /\ IF model.period_ = None
             THEN /\ pc' = "predict_error"
                  /\ err' = "Realizar o fit do modelo antes"
                  /\ previsao' = previsao
             ELSE /\ pc' = "predicted"
                  /\ err' = err
                  /\ previsao' = df_trecho_ajust(model.df_base, model.period_ + 1, h)
    /\ UNCHANGED <<df, model, top_corr, posicao, vazVars>>

----------------------------------------------------------------------------
(* The class used directly: one instance, one fit.                         *)

\* The values max_lt_min and max_gt_max are drawn from.
Thresholds == {0, 1}

\* The lists of years given as anos_ignorados: none, or one year of the series.
AnosIgnorados(d) == {<<>>} \cup { <<y>> : y \in AnosDaSerie(d) }

NoVaz20 ==
    /\ arquivo = 0
    /\ i_posto = 0
    /\ anos_usados = <<>>
    /\ result_models = <<>>
    /\ saida = <<>>
    /\ lim = [max_lt_min |-> None, max_gt_max |-> None]
    /\ vpc = "api"

NotFitted ==
    /\ top_corr = <<>>
    /\ posicao = None
    /\ err = ""
    /\ previsao = NoneDf
    /\ num_meses = None

Init ==
    /\ df \in Series
    /\ \E coluna \in Stations, lt \in Thresholds, gt \in Thresholds :
          \E anos \in AnosIgnorados(df) :
              model = NewModel(coluna, anos, lt, gt)
    /\ pc = "init"
    /\ NotFitted
    /\ NoVaz20

Next ==
    \/ FitStart
    \/ WalkKeyError
    \/ RejectGtMax
    \/ RejectLtMin
    \/ RejectAno
    \/ Accept
    \/ WalkExhausted

Spec == Init /\ [][Next]_vars

----------------------------------------------------------------------------
(* Either class used directly: one instance, one fit (or none), one        *)
(* predict.  A CorrelacaoAmplitude has thresholds 0 and anos_ignorados     *)
(* empty or holding the year after AnoInicial.                             *)

\* The values posicao of a SimpleCorrelation12 is drawn from.
Posicoes == 0..MaxPosicao

InitPredict ==
    /\ df \in Series
    /\ \/ \E coluna \in Stations, anos \in {<<>>, <<AnoInicial + 1>>} :
             model = NewModel(coluna, anos, 0, 0)
       \/ \E coluna \in Stations, posicao_arg \in Posicoes :
             model = NewSimple(coluna, posicao_arg)
    /\ pc = "init"
    /\ NotFitted
    /\ NoVaz20

NextPredict ==
    \/ Next
    \/ Predict
    \/ SimpleFit
    \/ SimplePredict

SpecPredict == InitPredict /\ [][NextPredict]_vars

----------------------------------------------------------------------------
(* CorrelacaoAmplitude.fit on series whose index is not a run of           *)
(* consecutive months.                                                     *)

\* The month a defective index lacks or repeats: March of AnoInicial.
MesDefeito == AnoInicial * 12 + 2

\* The series d with its index spoilt: the row of MesDefeito dropped
\* ("falta"), the row of MesDefeito given twice ("repete"), or the same
\* rows under an index of daily frequency ("diario").
Defeito(d, tipo) ==
    LET n == Len(d.index)
        k == CHOOSE i \in 1..n : d.index[i] = MesDefeito
    IN CASE tipo = "falta" ->
              [d EXCEPT !.index = SubSeq(d.index, 1, k - 1) \o SubSeq(d.index, k + 1, n),
                        !.rows = SubSeq(d.rows, 1, k - 1) \o SubSeq(d.rows, k + 1, n)]
         [] tipo = "repete" ->
              [d EXCEPT !.index = SubSeq(d.index, 1, k) \o SubSeq(d.index, k, n),
                        !.rows = SubSeq(d.rows, 1, k) \o SubSeq(d.rows, k, n)]
         [] tipo = "diario" -> [d EXCEPT !.freq = "D"]
         [] OTHER -> d

Defeitos == {"nenhum", "falta", "repete", "diario"}

SeriesIndice == { Defeito(d, tipo) : d \in Series, tipo \in Defeitos }

InitIndice ==
    /\ df \in SeriesIndice
    /\ \E coluna \in Stations, anos \in {<<>>, <<AnoInicial + 1>>} :
          model = NewModel(coluna, anos, 0, 0)
    /\ pc = "init"
    /\ NotFitted
    /\ NoVaz20

SpecIndice == InitIndice /\ [][Next]_vars

----------------------------------------------------------------------------
(* CorrelacaoAmplitude on series that end in any calendar month: one fit,  *)
(* one predict.                                                            *)

\* The series d with its index moved k months later.
Deslocar(d, k) == [d EXCEPT !.index = [i \in 1..Len(d.index) |-> d.index[i] + k]]

\* The series of two whole years (and their leading months), ending in
\* each of the twelve calendar months.
SeriesQualquerMes ==
    { Deslocar(d, k) : d \in { e \in Series : Len(e.rows) <= 2 * JANELA + MaxExtra },
                       k \in 0..(JANELA - 1) }

InitQualquerMes ==
    /\ df \in SeriesQualquerMes
    /\ \E coluna \in Stations, anos \in {<<>>, <<AnoInicial + 1>>} :
          model = NewModel(coluna, anos, 0, 0)
    /\ pc = "init"
    /\ NotFitted
    /\ NoVaz20

NextQualquerMes ==
    \/ Next
    \/ Predict

SpecQualquerMes == InitQualquerMes /\ [][NextQualquerMes]_vars

----------------------------------------------------------------------------
(* vaz20, the batch driver                                                 *)

\* The stations vaz20 ranks by (the keys of postos_corr), as columns.
postos_corr == <<6, 74, 169, 275>>

\* The stations the input files hold (vazoes.df_period.columns).
ColunasArquivo == <<6, 74>>

\* What the input files hold: the series of three whole years, for the
\* stations of ColunasArquivo.
SeriesVaz20 ==
    { [d EXCEPT !.columns = ColunasArquivo] : d \in { e \in Series : Len(e.rows) = 3 * JANELA } }

InitVaz20 ==
    /\ arquivo = 0
    /\ i_posto = 0
    /\ anos_usados = <<>>
    /\ result_models = <<>>
    /\ saida = <<>>
    /\ \E lt \in Thresholds, gt \in Thresholds :
          lim = [max_lt_min |-> lt, max_gt_max |-> gt]
    /\ vpc = "arquivos"
    /\ df = NoneDf
    /\ model = NewModel(None, <<>>, None, None)
    /\ pc = "none"
    /\ NotFitted

\* for arquivo in arquivos: vazoes = VazoesTxt(arquivo).  The folder holds
\* at most MaxFiles files; the loop goes on while it has another one.
AbrirArquivo ==
    /\ vpc = "arquivos"
    /\ arquivo < MaxFiles
    /\ arquivo' = arquivo + 1
    /\ df' \in SeriesVaz20
    /\ i_posto' = 1
    /\ vpc' = "postos"
    /\ UNCHANGED <<model, top_corr, posicao, pc, err, previsao, num_meses,
                   anos_usados, result_models, saida, lim>>

\* CriarModelo handing each model a new empty list instead of anos_usados.
CriarModelo_ListaNova ==
    /\ vpc = "postos"
    /\ i_posto <= Len(postos_corr)
    /\ model' = NewModel(postos_corr[i_posto], <<>>, lim.max_lt_min, lim.max_gt_max)
    /\ pc' = "init"
    /\ top_corr' = <<>>
    /\ posicao' = None
    /\ err' = ""
    /\ previsao' = NoneDf
    /\ num_meses' = None
    /\ vpc' = "fit"
    /\ UNCHANGED <<df, arquivo, i_posto, anos_usados, result_models, saida, lim>>

\* for posto in postos_corr: model = CorrelacaoAmplitude(posto, anos_usados, ...)
CriarModelo ==
    /\ vpc = "postos"
    /\ i_posto <= Len(postos_corr)
    /\ model' = NewModel(postos_corr[i_posto], anos_usados,
                         lim.max_lt_min, lim.max_gt_max)
    /\ pc' = "init"
    /\ top_corr' = <<>>
    /\ posicao' = None
    /\ err' = ""
    /\ previsao' = NoneDf
    /\ num_meses' = None
    /\ vpc' = "fit"
    /\ UNCHANGED <<df, arquivo, i_posto, anos_usados, result_models,
                   saida, lim>>

\* except Exception: print(...); continue
FitFalhou ==
    /\ vpc = "fit"
    /\ pc = "fit_error"
    /\ i_posto' = i_posto + 1
    /\ vpc' = "postos"
    /\ UNCHANGED <<fitVars, arquivo, anos_usados, result_models, saida, lim>>

\* newfile = f'{arquivo.stem}-{nome_posto}-{model.ano_escolhido_}.txt'
NewFile == [arquivo |-> arquivo, posto |-> postos_corr[i_posto], ano |-> model.ano_escolhido_]

\* model.predict(), the new file saved, anos_usados.append, result_models[newfile];
\* saida and result_models keep the names of the new files.  The model's
\* anos_ignorados is the list anos_usados itself, so it grows with it.
Salvar ==
    /\ vpc = "fit"
    /\ pc = "fitted"
    /\ num_meses' = 0
    /\ previsao' = df_trecho_ajust(model.df_base, model.period_escolhido_ini_, 0)
    /\ pc' = "predicted"
    /\ saida' = Append(saida, NewFile)
    /\ anos_usados' = Append(anos_usados, model.ano_escolhido_)
    /\ model' = [model EXCEPT !.anos_ignorados = Append(anos_usados, model.ano_escolhido_)]
    /\ result_models' = Append(result_models, NewFile)
    /\ i_posto' = i_posto + 1
    /\ vpc' = "postos"
    /\ UNCHANGED <<df, top_corr, posicao, err, arquivo, lim>>

\* The stations of one file are done: on to the next file.  vazoes, model
\* and what the last fit left are reassigned before they are read again.
ProximoArquivo ==
    /\ vpc = "postos"
    /\ i_posto > Len(postos_corr)
    /\ vpc' = "arquivos"
    /\ df' = NoneDf
    /\ model' = NewModel(None, <<>>, None, None)
    /\ pc' = "none"
    /\ top_corr' = <<>>
    /\ posicao' = None
    /\ err' = ""
    /\ previsao' = NoneDf
    /\ num_meses' = None
    /\ UNCHANGED <<arquivo, i_posto, anos_usados, result_models, saida, lim>>

\* The loop over the files has ended.  pd.DataFrame(dados).set_index('arquivo')
\* raises KeyError when no model was kept (the frame has no column
\* 'arquivo'); else the log is written and result_models returned.
Relatorio ==
    /\ vpc = "arquivos"
    /\ IF result_models = <<>>
       THEN vpc' = "erro" /\ err' = "KeyError"
       ELSE vpc' = "fim" /\ err' = err
    /\ UNCHANGED <<df, model, top_corr, posicao, pc, previsao, num_meses,
                   arquivo, i_posto, anos_usados, result_models, saida, lim>>

NextVaz20 ==
    \/ AbrirArquivo
    \/ CriarModelo
    \/ Next
    \/ FitFalhou
    \/ Salvar
    \/ ProximoArquivo
    \/ Relatorio

SpecVaz20 == InitVaz20 /\ [][NextVaz20]_vars

----------------------------------------------------------------------------
(* Properties.  Ranks count from 0, as the positions of top_corr do.       *)

Rank(r) == top_corr[r + 1]
WindowEnd(r) == Rank(r).mes_final
\* The calendar year of the month after the candidate's window-end month.
ImpliedYear(r) == Year(WindowEnd(r) + 1)
\* The month after the window end is a month of the series.
InSeries(r) == InIndex(df, WindowEnd(r) + 1)
\* value at (window-end + 1 month) / value at the series' final month
CandidateRatio(r, s) ==
    [n |-> Loc(df, WindowEnd(r) + 1)[s], d |-> Last(df.rows)[s]]
AboveCount(r) ==
    Cardinality({ s \in Stations : RatioGt(CandidateRatio(r, s), model.amplitudes_.max[s]) })
BelowCount(r) ==
    Cardinality({ s \in Stations : RatioGt(model.amplitudes_.min[s], CandidateRatio(r, s)) })
YearExcluded(r) == InList(ImpliedYear(r), model.anos_ignorados)
PassesAll(r) ==
    /\ AboveCount(r) <= model.max_gt_max
    /\ BelowCount(r) <= model.max_lt_min
    /\ ~YearExcluded(r)
\* fit has accepted a candidate.
Accepted == model.classe = "CorrelacaoAmplitude" /\ model.posicao_ # None
\* fit has returned: a CorrelacaoAmplitude accepted a candidate, a
\* SimpleCorrelation12 took the row at its posicao.
FitSucceeded ==
    IF model.classe = "SimpleCorrelation12" THEN model.period_ # None ELSE Accepted
\* The forecast-start period f of a fitted instance.
ForecastStart ==
    IF model.classe = "SimpleCorrelation12" THEN model.period_ + 1
    ELSE model.period_escolhido_ini_
Rejections == model.anos_rejeitados_
AnoUsado == "ano utilizado em outro arquivo"

\* C1: whenever fit accepts a candidate, its aboveCount is <= max_gt_max and
\* its belowCount is <= max_lt_min, both at once, and gt_max_ / lt_min_ are
\* those two counts of the accepted candidate.
C1_AcceptedWithinThresholds ==
    Accepted =>
        /\ AboveCount(model.posicao_) <= model.max_gt_max
        /\ BelowCount(model.posicao_) <= model.max_lt_min
        /\ model.gt_max_ = AboveCount(model.posicao_)
        /\ model.lt_min_ = BelowCount(model.posicao_)

\* A candidate was accepted with one station above its max, the most
\* max_gt_max allows, after another candidate was rejected for its stations
\* below their min.
C1_Witness ==
    /\ pc = "fitted"
    /\ model.gt_max_ = 1
    /\ model.max_gt_max = 1
    /\ model.max_lt_min = 0
    /\ Rejections # <<>>
    /\ Rejections[1].motivo.texto = "lt_min"

\* C2: fit never accepts a candidate whose implied year is in
\* anos_ignorados; ano_escolhido_ is that implied year and is no member of
\* anos_ignorados.
C2_AcceptedYearNotExcluded ==
    Accepted =>
        /\ model.ano_escolhido_ = ImpliedYear(model.posicao_)
        /\ ~InList(model.ano_escolhido_, model.anos_ignorados)

\* A candidate was accepted after a better-ranked one was rejected for its
\* year, with a series that ends in December (the implied year is the year
\* after the window end's).
C2_Witness ==
    /\ pc = "fitted"
    /\ model.anos_ignorados # <<>>
    /\ Month(Last(df.index)) = 12
    /\ \E i \in 1..Len(Rejections) : Rejections[i].motivo.texto = AnoUsado

\* C3: when fit accepts rank p, every rank 1..p-1 failed at least one check
\* and has exactly one rejection record, the records are in rank order, the
\* list has length p-1, rank p fails no check and the walk stopped at p.
C3_FirstPassingCandidate ==
    Accepted =>
        /\ model.posicao_ >= 1
        /\ posicao = model.posicao_
        /\ Len(Rejections) = model.posicao_ - 1
        /\ \A r \in 1..(model.posicao_ - 1) :
              /\ ~PassesAll(r)
              /\ Rejections[r].ano = ImpliedYear(r)
              /\ Rejections[r].correlacao = Rank(r).corr
        /\ PassesAll(model.posicao_)

\* Rank 3 was accepted after ranks 1 and 2 were rejected.
C3_Witness ==
    /\ pc = "fitted"
    /\ model.posicao_ = 3
    /\ Len(Rejections) = 2

\* C4 (as claimed): if no candidate of rank >= 1 passes the three checks,
\* fit fails with the NoAcceptableAnalog error, the rejection list holding
\* one record per ranked candidate but rank 0.
C4_ExhaustedIsNoAcceptableAnalog ==
    (/\ pc = "fit_error"
     /\ \A r \in 1..(Len(top_corr) - 1) : InSeries(r) /\ ~PassesAll(r))
        => /\ err = "NoAcceptableAnalog"
           /\ Len(Rejections) = Len(top_corr) - 1

\* C5 (as claimed): rank 0 of the ranking is the reference window (the
\* window ending at the series' final month) with correlation 1.0, and no
\* rank >= 1 is the reference window.
C5_RankZeroIsReference ==
    top_corr # <<>> =>
        /\ WindowEnd(0) = Last(df.index)
        /\ CorrIsOne(Rank(0).corr)
        /\ \A r \in 1..(Len(top_corr) - 1) : WindowEnd(r) # Last(df.index)

\* The 36-month series whose months 25-36 repeat months 13-24, thresholds 0
\* and no excluded year.
C6_Scenario ==
    /\ model.classe = "CorrelacaoAmplitude"
    /\ Len(df.rows) = 36
    /\ SubSeq(df.rows, 25, 36) = SubSeq(df.rows, 13, 24)
    /\ model.max_gt_max = 0
    /\ model.max_lt_min = 0
    /\ model.anos_ignorados = <<>>

\* C6 (as claimed): in that scenario fit accepts the candidate whose window
\* ends at month 24 at rank 1 with aboveCount = belowCount = 0, and predict
\* returns the rows from month 25 on under an index that begins at month 37.
C6_ScenarioAcceptsMonth24 ==
    C6_Scenario =>
        /\ pc # "fit_error"
        /\ pc \in {"fitted", "predicted"} =>
              /\ model.posicao_ = 1
              /\ model.period_escolhido_ini_ = df.index[25]
              /\ model.gt_max_ = 0
              /\ model.lt_min_ = 0
        /\ pc = "predicted" =>
              /\ previsao.rows = SubSeq(df.rows, 25, 24 + Len(previsao.rows))
              /\ previsao.index[1] = df.index[36] + 1

\* Rows of the series from the forecast-start period to its last row.
RowsAvailable ==
    Cardinality({ i \in 1..Len(df.index) : df.index[i] >= ForecastStart })

\* C7: after a successful fit (of either class) with forecast start f,
\* predict(h), h >= 1 fitting inside the series, returns exactly h rows;
\* row i holds the values of the series at period f + i and is indexed by
\* the i-th month after the series' last month.
C7_CopyFidelity ==
    (/\ pc = "predicted"
     /\ FitSucceeded
     /\ num_meses >= 1
     /\ num_meses <= RowsAvailable)
        => /\ Len(previsao.rows) = num_meses
           /\ Len(previsao.index) = num_meses
           /\ \A i \in 0..(num_meses - 1) :
                 /\ previsao.rows[i + 1] = Loc(df, ForecastStart + i)
                 /\ previsao.index[i + 1] = Last(df.index) + 1 + i

\* predict(12) after a CorrelacaoAmplitude accepted rank 2.
C7_Witness ==
    /\ pc = "predicted"
    /\ Accepted
    /\ model.posicao_ = 2
    /\ num_meses = 12
    /\ Len(previsao.rows) = 12

\* C8 (as claimed): predict never returns an extension with fewer rows than
\* the horizon (given or default); when the series has fewer rows from the
\* forecast start on, it fails.
C8_NeverFewerRowsThanHorizon ==
    (pc = "predicted" /\ FitSucceeded)
        => Len(previsao.rows) = Horizon(num_meses, ForecastStart)

\* The reason the walk owes rank r: the first check it fails.
FirstFailedCheck(r) ==
    IF AboveCount(r) > model.max_gt_max THEN "gt_max"
    ELSE IF BelowCount(r) > model.max_lt_min THEN "lt_min"
    ELSE IF YearExcluded(r) THEN AnoUsado
    ELSE "none"

\* C9: the i-th rejection record is the record of rank i and carries the
\* reason of the first check that rank fails, in the order above-max,
\* below-min, year-used: a candidate within both thresholds whose implied
\* year is excluded has the reason year-used; and after each rejection the
\* walk is at the next rank.
C9_RejectionReasons ==
    /\ \A i \in 1..Len(Rejections) :
          /\ Rejections[i].ano = ImpliedYear(i)
          /\ Rejections[i].motivo.texto = FirstFailedCheck(i)
          /\ (/\ AboveCount(i) <= model.max_gt_max
              /\ BelowCount(i) <= model.max_lt_min
              /\ YearExcluded(i)) => Rejections[i].motivo.texto = AnoUsado
    /\ pc = "walk" => posicao = Len(Rejections) + 1

\* A candidate within both thresholds was rejected for its year while one
\* station was out of bounds, and the next rank was then accepted.
C9_Witness ==
    /\ pc = "fitted"
    /\ model.posicao_ >= 2
    /\ Rejections[model.posicao_ - 1].motivo.texto = AnoUsado
    /\ AboveCount(model.posicao_ - 1) + BelowCount(model.posicao_ - 1) >= 1

IsPrefix(s, t) == Len(s) <= Len(t) /\ SubSeq(t, 1, Len(s)) = s

\* C10: in a run of vaz20 the list of excluded years each fit sees is
\* anos_usados (every model of the run holds that very list, before and
\* after its own year is appended), which holds the year chosen by every
\* earlier successful fit of the run and only grows; the chosen years of
\* the output files are pairwise distinct.
C10_UsedYearsGrowAndDiffer ==
    /\ [](/\ Len(anos_usados) = Len(result_models)
          /\ \A i \in 1..Len(result_models) : anos_usados[i] = result_models[i].ano
          /\ pc # "none" => model.anos_ignorados = anos_usados
          /\ \A i, j \in 1..Len(saida) : i # j => saida[i].ano # saida[j].ano)
    /\ [][IsPrefix(anos_usados, anos_usados')]_vars

\* A second fit of the run succeeded after it rejected a candidate for the
\* year an earlier fit had chosen.
C10_Witness ==
    /\ vpc = "fit"
    /\ pc = "fitted"
    /\ Len(anos_usados) >= 1
    /\ \E i \in 1..Len(Rejections) :
          /\ Rejections[i].motivo.texto = AnoUsado
          /\ InList(Rejections[i].ano, anos_usados)

\* The (file, station) pair whose fit has just failed: vaz20 is back at the
\* station loop with the exception fit raised still at hand.
ParFalhou == vpc = "postos" /\ pc = "fit_error"
TemPar(l, a, p) == \E i \in 1..Len(l) : l[i].arquivo = a /\ l[i].posto = p

\* C11 (as claimed): a fit failure never aborts the batch: the failed pair
\* has no output file, no model in the results and no year in the used-years
\* list, and a run that processed at least one file ends returning the
\* models of the pairs that succeeded, never with an exception, whatever the
\* number of failed pairs.
C11_FitFailureNeverAbortsBatch ==
    /\ ParFalhou =>
          /\ ~TemPar(saida, arquivo, postos_corr[i_posto - 1])
          /\ ~TemPar(result_models, arquivo, postos_corr[i_posto - 1])
          /\ Len(anos_usados) = Len(result_models)
    /\ arquivo >= 1 => vpc # "erro"
    /\ vpc = "fim" => result_models = saida

\* Station s has zero retained ratios: no positive, finite historical ratio
\* at the calendar month of the series' final month.
SemRazao(s) == ratio_mes(df, s) = {}

\* C12 (as claimed): if some station has zero retained ratios, fit fails
\* with InsufficientHistory when it computes the amplitude bounds: it never
\* goes on to examine the candidates and never accepts one.
C12_NoBoundIsInsufficientHistory ==
    (\E s \in Stations : SemRazao(s)) =>
        /\ pc # "walk"
        /\ ~Accepted
        /\ pc = "fit_error" => err = "InsufficientHistory"

\* The index is a strict run of consecutive months.
IndiceMensalConsecutivo(d) ==
    /\ FreqMensal(d)
    /\ \A i \in 1..(Len(d.index) - 1) : d.index[i + 1] = d.index[i] + 1
\* The exception the code has for an index of the wrong kind.
InvalidIndexKind == FavorInformar

\* C13 (as claimed): for every input whose index is not a strict run of
\* consecutive months, a gap or a repeated month under monthly frequency
\* included, fit fails with the invalid-index error and computes no
\* correlation table and no selection.
C13_BadIndexIsRejected ==
    ~IndiceMensalConsecutivo(df) =>
        /\ pc \in {"init", "fit_error"}
        /\ pc = "fit_error" => err = InvalidIndexKind
        /\ model.df_correlacao = <<>>
        /\ top_corr = <<>>
        /\ ~Accepted

\* The ranks of the ranked list but rank 0.
Candidates == 1..(Len(top_corr) - 1)
\* Two ranks with the same, defined, correlation.
Tied(i, j) ==
    /\ ~IsNaNCorr(Rank(i).corr)
    /\ ~IsNaNCorr(Rank(j).corr)
    /\ ~CorrGt(Rank(i).corr, Rank(j).corr)
    /\ ~CorrGt(Rank(j).corr, Rank(i).corr)

\* C14 (as claimed): from rank 1 on the ranked list is strictly descending
\* in the reference station's correlation.
C14_StrictlyDescending ==
    \A i, j \in Candidates : i < j => CorrGt(Rank(i).corr, Rank(j).corr)

\* C14 (amended): the ranked list never ascends in the reference station's
\* correlation (equal correlations are adjacent, undefined ones come last),
\* and no candidate that passes the three checks has a greater correlation
\* than the accepted one.
C14_NeverAscending ==
    /\ \A i, j \in 0..(Len(top_corr) - 1) :
          i < j => /\ ~CorrGt(Rank(j).corr, Rank(i).corr)
                   /\ IsNaNCorr(Rank(i).corr) => IsNaNCorr(Rank(j).corr)
    /\ Accepted =>
          \A r \in Candidates :
              (InSeries(r) /\ PassesAll(r))
                  => ~CorrGt(Rank(r).corr, Rank(model.posicao_).corr)

\* Ranks 1 and 2 are tied; rank 1 was rejected and rank 2 accepted.
C14_Witness ==
    /\ pc = "fitted"
    /\ model.posicao_ = 2
    /\ Tied(1, 2)

\* The historical ratios as the candidateRatio is taken: a station's value
\* in the month after a final calendar month divided by its value in that
\* final calendar month, positive and finite.
HistoricalRatios(s) ==
    LET n == Len(df.rows)
    IN { [n |-> df.rows[k + 1][s], d |-> df.rows[k][s]] :
            k \in { i \in 1..(n - 1) : /\ Month(df.index[i]) = Month(df.index[n])
                                       /\ df.rows[i][s] > 0
                                       /\ df.rows[i + 1][s] > 0 } }
RatioEq(r1, r2) ==
    \/ IsNaNRatio(r1) /\ IsNaNRatio(r2)
    \/ ~IsNaNRatio(r1) /\ ~IsNaNRatio(r2) /\ r1.n * r2.d = r2.n * r1.d
PositiveFinite(r) == r.n > 0 /\ r.d > 0

\* C15 (as claimed): the bounds are the min and max of the same quantity as
\* the candidateRatio (next month over final calendar month), so a candidate
\* whose window-end values equal the series' final-month values for every
\* station, with positive finite ratios, has aboveCount = belowCount = 0.
C15_BoundsAndCandidateSameQuantity ==
    pc \in {"walk", "fitted", "fit_error"} =>
        /\ \A s \in Stations :
              /\ RatioEq(model.amplitudes_.min[s], RatioMin(HistoricalRatios(s)))
              /\ RatioEq(model.amplitudes_.max[s], RatioMax(HistoricalRatios(s)))
        /\ \A r \in Candidates :
              (/\ InSeries(r)
               /\ Loc(df, WindowEnd(r)) = Last(df.rows)
               /\ \A s \in Stations : PositiveFinite(CandidateRatio(r, s)))
                  => AboveCount(r) = 0 /\ BelowCount(r) = 0

\* Rows of the series up to and including period p.
RowsUpTo(p) == Cardinality({ i \in 1..Len(df.index) : df.index[i] <= p })
\* Rank r is a complete window with a defined reference-station correlation.
CompleteDefined(r) ==
    /\ RowsUpTo(WindowEnd(r)) >= JANELA
    /\ ~IsNaNCorr(Rank(r).corr)

\* C16 (as claimed): every candidate the walk examines, and so the one it
\* accepts, is a complete 12-month window inside the series with a defined
\* correlation for the reference station.
C16_OnlyCompleteDefinedWindows ==
    /\ (InWalk /\ InSeries(posicao)) => CompleteDefined(posicao)
    /\ Accepted => /\ CompleteDefined(model.posicao_)
                   /\ ~IsNaNCorr(model.correlacao_)

\* C17: when no horizon is given, a fitted CorrelacaoAmplitude predicts
\* 13 - (calendar month of the forecast start) rows; the forecast start has
\* the calendar month of the month after the series' last one, so the
\* extension starts at that month and ends at December of its year (12 rows
\* when the series ends in December).
C17_DefaultHorizonEndsInDecember ==
    (pc = "predicted" /\ Accepted /\ num_meses = 0) =>
        /\ Month(ForecastStart) = Month(Last(df.index) + 1)
        /\ Len(previsao.rows) = FIM_DE_ANO - Month(ForecastStart)
        /\ previsao.index[1] = Last(df.index) + 1
        /\ Month(Last(previsao.index)) = 12
        /\ Year(Last(previsao.index)) = Year(Last(df.index) + 1)
        /\ Month(Last(df.index)) = 12 => Len(previsao.rows) = 12

\* predict() after a fit on a series that ends in May: 7 rows, June to
\* December.
C17_Witness ==
    /\ pc = "predicted"
    /\ Accepted
    /\ num_meses = 0
    /\ Month(Last(df.index)) = 5
    /\ Len(previsao.rows) = 7
    /\ Month(previsao.index[1]) = 6

\* The dedicated error of predict on an instance that was not fitted.
RealizarFit == "Realizar o fit do modelo antes"

\* C18 (as claimed): predict on an instance of either class on which no fit
\* has completed successfully (never fitted, or its fit failed) fails with
\* the error "Realizar o fit do modelo antes" and returns no extension.
C18_PredictBeforeFitIsDedicatedError ==
    (pc \in {"predicted", "predict_error"} /\ ~FitSucceeded) =>
        /\ pc = "predict_error"
        /\ err = RealizarFit
        /\ previsao = NoneDf

====
